---- MODULE Spec2Model ----
(***************************************************************************)
(* A model of src/memory_manager.py: the MemoryManager facade over the     *)
(* memory engine (mem0 Memory), the prompt template service (get_prompt)   *)
(* and the generation HTTP endpoint (requests.post).                       *)
(*                                                                         *)
(* One MemoryManager instance is modelled. Its public operations run one   *)
(* at a time (the module is synchronous); every operation is a sequence of *)
(* steps, one per external call, and `trace` records the external calls of *)
(* the operation in flight, in order.                                      *)
(*                                                                         *)
(* Python values are modelled as follows.                                  *)
(*  - an Optional[str] argument: a string, PyNoneStr standing for None;    *)
(*  - an Optional[int] argument: a set, {} for None and {n} for n;         *)
(*  - a value returned by the engine: a record [t, hasKey, results], with  *)
(*    t = "none" (None), "dict" (a mapping, hasKey telling whether it has  *)
(*    the key 'results') or "list" (a bare list of records, which is not a *)
(*    mapping and has no .get);                                            *)
(*  - str: a TLA+ string; the bullet U+2022 is written "*".                *)
(***************************************************************************)
EXTENDS Integers, Sequences, FiniteSets, TLC

VARIABLES
    mgr,        \* "new" | "loaded" | "ready" | "failed": construction progress
    cfgFile,    \* the configuration file the constructor is given
    config,     \* self.config, the parsed configuration
    initError,  \* the exception __init__ raised, "" when none
    memory,     \* self.memory: "None", or "Memory" once the engine is built
    last,       \* the reset_memories call that finished last, if no other
                \* operation has begun since
    store,      \* the engine's stored records, in the order of their ids
    pc,         \* position of the operation in flight, "idle" between calls
    call,       \* the arguments of the operation in flight or last finished
    loc,        \* its local variables
    ret,        \* how it ended: returned value or raised exception
    trace,      \* its external calls so far, in order
    client      \* state of the generation client call and its HTTP request

vars == <<mgr, cfgFile, config, initError, memory, last, store, pc, call, loc, ret,
          trace, client>>

(***************************************************************************)
(* Bounds of the model.                                                    *)
(***************************************************************************)
MaxRetries == 3
MaxStore == 2

(***************************************************************************)
(* Python values.                                                          *)
(***************************************************************************)
PyNoneStr == "<None>"

PyNone == [t |-> "none", hasKey |-> FALSE, results |-> <<>>]

PyDict(hasKey, rs) == [t |-> "dict", hasKey |-> hasKey, results |-> rs]

PyList(rs) == [t |-> "list", hasKey |-> FALSE, results |-> rs]

\* bool(v): None, an empty mapping and an empty list are falsy.
Truthy(v) ==
    CASE v.t = "none" -> FALSE
      [] v.t = "dict" -> v.hasKey
      [] v.t = "list" -> Len(v.results) > 0

\* Whether v.get exists: only a mapping has it.
HasGet(v) == v.t = "dict"

\* v.get('results') of a mapping; an absent key gives None, which is as
\* falsy as the empty list, and is modelled by it.
GetResults(v) == IF v.hasKey THEN v.results ELSE <<>>

\* bool(s) of an Optional[str].
TruthyStr(s) == s # PyNoneStr /\ s # ""

\* bool(o) of an Optional[int].
TruthyInt(o) == o # {} /\ o # {0}

(***************************************************************************)
(* Inputs.                                                                 *)
(***************************************************************************)
Facts == {"Lives in NYC", "Likes pizza"}
Queries == {"What do I like?"}
UserArgs == {PyNoneStr, "bruce"}
LimitArgs == {{}, {0}, {2}}
EngineErrors == {"engine unavailable"}
PromptErrors == {"template not found"}
HttpErrors == {"connection refused", "read timed out", "500 Server Error"}
\* The JSON body of a 2xx answer: without a response field, with a null
\* one, or with a text.
Bodies ==
    { [kind |-> "absent", text |-> ""], [kind |-> "null", text |-> ""] }
    \cup { [kind |-> "text", text |-> t] : t \in {" \n", " You like pizza.\n"} }

(***************************************************************************)
(* Configuration files. kind is "missing" (no such file), "malformed"      *)
(* (not JSON) or "json". A JSON file may lack memory_config, and the       *)
(* engine may refuse its memory_config (engineOk). chat_options is         *)
(* "absent", "null" (present but not a mapping) or "set" (a mapping with   *)
(* max_context_memories = CfgMaxContext). llm tells whether                *)
(* memory_config.llm.config holds ollama_base_url and model. user_id is    *)
(* processing_options.user_id, PyNoneStr when processing_options is        *)
(* absent; processing_options is "ok" (absent or a mapping) or "null"      *)
(* (present but not a mapping).                                            *)
(***************************************************************************)
CfgMaxContext == 3

\* The default of max_context_memories (line 267).
DefaultMaxContext == 5

NoConfig ==
    [kind |-> "missing", memory_config |-> FALSE, engineOk |-> FALSE,
     chat_options |-> "absent", llm |-> FALSE, user_id |-> PyNoneStr,
     processing_options |-> "ok"]

JsonConfig(mc, eng, co, llm, uid) ==
    [kind |-> "json", memory_config |-> mc, engineOk |-> eng,
     chat_options |-> co, llm |-> llm, user_id |-> uid,
     processing_options |-> "ok"]

ConfigFiles ==
    { NoConfig, [NoConfig EXCEPT !.kind = "malformed"],
      JsonConfig(FALSE, FALSE, "absent", FALSE, PyNoneStr),
      JsonConfig(TRUE, FALSE, "absent", TRUE, PyNoneStr) }
    \cup { JsonConfig(TRUE, TRUE, co, llm, PyNoneStr) :
             co \in {"absent", "null", "set"}, llm \in BOOLEAN }
    \cup { JsonConfig(TRUE, TRUE, "set", TRUE, "alice"),
           [JsonConfig(TRUE, TRUE, "absent", TRUE, PyNoneStr)
               EXCEPT !.processing_options = "null"] }

(***************************************************************************)
(* Defaults of the variables an operation does not use.                    *)
(***************************************************************************)
NoCall == [op |-> "none", text |-> "", user_id |-> PyNoneStr,
           max_retries |-> 0, max_context_memories |-> {}, limit |-> 0]

NoBody == [kind |-> "none", text |-> ""]

NoLoc == [user_id |-> "", attempt |-> 0, limit |-> {}, memories |-> PyNone,
          context |-> "", prompt |-> "", error |-> "", body |-> NoBody,
          pending |-> <<>>, deleted_count |-> 0]

NoRet == [st |-> "none", val |-> PyNone, text |-> "", exc |-> "", num |-> 0]

\* The state of a _call_ollama_api call: raised and text are its outcome,
\* the message of the exception when it raised and the string it returned
\* when it did not.
NoClient == [st |-> "idle", prompt |-> "", stream |-> FALSE, posts |-> 0,
             raised |-> FALSE, text |-> ""]

\* An external call of the operation in flight: ev is "add", "sleep",
\* "search", "get_all", "delete", "prompt" or "post"; raised tells whether
\* the call raised; val is the value an engine call returned, and for a
\* delete the listed record it was made for; arg is the template name of a prompt
\* call and the prompt of a post; bind is the keyword bindings of a prompt
\* call, in the order the code writes them; out is the message of the
\* exception when the call raised, and the text a prompt call returned.
Event(ev, raised, val, arg, bind, out) ==
    [ev |-> ev, raised |-> raised, val |-> val, arg |-> arg, bind |-> bind,
     out |-> out]

\* What is kept of a finished reset_memories call until another operation
\* begins: the user it was for, whether that user had records when it
\* began, and whether it went clean, that is the listing was a mapping of
\* all the user's records and no delete raised. NoLast after any other
\* operation.
NoLast == [op |-> "none", user_id |-> "", populated |-> FALSE, clean |-> FALSE]

Returned(v) ==
    [st |-> "returned", val |-> v, text |-> "", exc |-> "", num |-> 0]

ReturnedText(s) ==
    [st |-> "returned", val |-> PyNone, text |-> s, exc |-> "", num |-> 0]

\* The return of a count (reset_memories).
ReturnedNum(n) ==
    [st |-> "returned", val |-> PyNone, text |-> "", exc |-> "", num |-> n]

Raised(e) ==
    [st |-> "raised", val |-> PyNone, text |-> "", exc |-> e, num |-> 0]

Init ==
    /\ mgr = "new"
    /\ cfgFile \in ConfigFiles
    /\ config = NoConfig
    /\ initError = ""
    /\ memory = "None"
    /\ last = NoLast
    /\ store = <<>>
    /\ pc = "idle"
    /\ call = NoCall
    /\ loc = NoLoc
    /\ ret = NoRet
    /\ trace = <<>>
    /\ client = NoClient

(***************************************************************************)
(* Construction: __init__ loads the configuration, reads the default user  *)
(* id, then builds the engine.                                             *)
(***************************************************************************)
\* The exception _load_config raises on the file f, "" when it returns.
LoadError(f) ==
    IF f.kind = "missing" THEN "FileNotFoundError"
    ELSE IF f.kind = "malformed" THEN "ValueError"
    ELSE ""

\* _load_config and the rest of __init__ up to _initialize_memory: line 56
\* sets self.memory to None; line 57 calls .get on processing_options.
LoadConfig ==
    /\ mgr = "new"
    /\ IF LoadError(cfgFile) # ""
       THEN /\ mgr' = "failed"
            /\ initError' = LoadError(cfgFile)
            /\ config' = config
       ELSE IF cfgFile.processing_options = "null"
       THEN /\ mgr' = "failed"
            /\ initError' = "AttributeError"
            /\ config' = cfgFile
       ELSE /\ mgr' = "loaded"
            /\ initError' = ""
            /\ config' = cfgFile
    /\ memory' = "None"
    /\ UNCHANGED <<cfgFile, last, store, pc, call, loc, ret, trace, client>>

\* self.user_id: processing_options.user_id, else 'default'.
DefaultUser ==
    IF config.user_id = PyNoneStr THEN "default" ELSE config.user_id

\* An initialization that reads memory_config outside its try: a missing
\* key surfaces as KeyError.
MemoryInitError_KeyErrorEscapes(c) ==
    IF ~c.memory_config THEN "KeyError"
    ELSE IF ~c.engineOk THEN "RuntimeError"
    ELSE ""

\* The exception _initialize_memory raises, "" when it returns: the lookup
\* of memory_config and Memory.from_config both stand in the try, and any
\* exception becomes a RuntimeError.
MemoryInitError(c) ==
    IF ~c.memory_config \/ ~c.engineOk THEN "RuntimeError" ELSE ""

\* _initialize_memory
InitializeMemory ==
    /\ mgr = "loaded"
    /\ IF MemoryInitError(config) = ""
       THEN mgr' = "ready" /\ initError' = "" /\ memory' = "Memory"
       ELSE mgr' = "failed" /\ initError' = MemoryInitError(config)
                            /\ memory' = memory
    /\ UNCHANGED <<cfgFile, config, last, store, pc, call, loc, ret, trace, client>>

\* The manager is constructed and no operation is in flight.
Idle == mgr = "ready" /\ pc = "idle"

(***************************************************************************)
(* The memory engine (external). add either raises or returns a value; a   *)
(* value that reports a created record comes with that record stored.      *)
(***************************************************************************)
FreeIds == (1..MaxStore) \ {store[i].id : i \in 1..Len(store)}

NewRecord(fact, user) ==
    [id |-> CHOOSE i \in FreeIds : \A j \in FreeIds : i <= j,
     user |-> user, memory |-> fact]

\* The store with the records rs added (none or one): the engine keeps its
\* records in the order of their ids.
Stored(rs) ==
    IF rs = <<>> THEN store
    ELSE SelectSeq(store, LAMBDA r : r.id < rs[1].id) \o rs
         \o SelectSeq(store, LAMBDA r : r.id > rs[1].id)

\* The outcomes of memory.add(fact, user_id=user, metadata=...).
AddOutcomes(fact, user) ==
    { [kind |-> "raise", val |-> PyNone, commit |-> <<>>, error |-> e] :
        e \in EngineErrors }
    \cup { [kind |-> "return", val |-> v, commit |-> <<>>, error |-> ""] :
             v \in {PyNone, PyDict(FALSE, <<>>), PyDict(TRUE, <<>>), PyList(<<>>)} }
    \cup IF Len(store) < MaxStore
         THEN { [kind |-> "return", val |-> v, commit |-> <<NewRecord(fact, user)>>,
                 error |-> ""] :
                  v \in { PyDict(TRUE, <<NewRecord(fact, user)>>),
                          PyList(<<NewRecord(fact, user)>>) } }
         ELSE {}

(***************************************************************************)
(* add_fact                                                                *)
(***************************************************************************)
\* user_id or self.user_id
ResolveUser(u) == IF TruthyStr(u) THEN u ELSE DefaultUser

\* range(max_retries) still has the index i.
InRange(i, n) == i >= 0 /\ i < n

CallAddFact(fact, u, n) ==
    /\ Idle
    /\ call' = [NoCall EXCEPT !.op = "add_fact", !.text = fact,
                              !.user_id = u, !.max_retries = n]
    /\ loc' = [NoLoc EXCEPT !.user_id = ResolveUser(u)]
    /\ trace' = <<>>
    /\ client' = NoClient
    /\ IF InRange(0, n)
       THEN pc' = "add_try" /\ ret' = NoRet
       ELSE pc' = "done" /\ ret' = Returned(PyNone)
    /\ last' = NoLast
    /\ UNCHANGED <<mgr, cfgFile, config, initError, memory, store>>

\* An inspection that fails on every non-empty result.
InspectRaises_AnyTruthy(v) == Truthy(v)

\* Lines 139-144 raise on a result they cannot inspect: a truthy value
\* without .get (AttributeError), inside the try of the attempt.
InspectRaises(v) == Truthy(v) /\ ~HasGet(v)

\* One pass through the try block: memory.add, then the inspection of its
\* result. Both branches of the inspection return the result.
AddAttempt ==
    /\ pc = "add_try"
    /\ \E o \in AddOutcomes(call.text, loc.user_id) :
         /\ trace' = Append(trace, Event("add", o.kind = "raise", o.val, "", <<>>, o.error))
         /\ store' = Stored(o.commit)
         /\ IF o.kind = "raise"
            THEN /\ pc' = "add_except"
                 /\ loc' = [loc EXCEPT !.error = o.error]
                 /\ ret' = ret
            ELSE IF InspectRaises(o.val)
            THEN /\ pc' = "add_except"
                 /\ loc' = [loc EXCEPT !.error = "AttributeError"]
                 /\ ret' = ret
            ELSE /\ pc' = "done"
                 /\ loc' = loc
                 /\ ret' = Returned(o.val)
    /\ UNCHANGED <<mgr, cfgFile, config, initError, memory, last, call, client>>

\* A retry test that is off by one: it gives up one attempt early.
ShouldRetry_OffByOne(attempt, n) == attempt < n - 2

\* attempt < max_retries - 1
ShouldRetry(attempt, n) == attempt < n - 1

\* The except block: sleep and go round the loop, or give up.
AddExcept ==
    /\ pc = "add_except"
    /\ IF ShouldRetry(loc.attempt, call.max_retries)
       THEN /\ trace' = Append(trace, Event("sleep", FALSE, PyNone, "", <<>>, ""))
            /\ loc' = [loc EXCEPT !.attempt = @ + 1]
            /\ IF InRange(loc.attempt + 1, call.max_retries)
               THEN pc' = "add_try" /\ ret' = ret
               ELSE pc' = "done" /\ ret' = Returned(PyNone)
       ELSE /\ trace' = trace
            /\ loc' = loc
            /\ pc' = "done"
            /\ ret' = Returned(PyNone)
    /\ UNCHANGED <<mgr, cfgFile, config, initError, memory, last, store, call, client>>

(***************************************************************************)
(* The memory engine's search (external): it raises, or returns a value.   *)
(* A mapping holds as many of the user's records as the limit allows, in   *)
(* the engine's rank order, which is any order; the engine may also answer *)
(* None, an empty mapping, or a bare list.                                 *)
(***************************************************************************)
UserRecords(user) == SelectSeq(store, LAMBDA r : r.user = user)

Min(a, b) == IF a < b THEN a ELSE b

\* The rankings of the records rs cut to the limit n.
Rankings(rs, n) ==
    LET k == Min(Len(rs), IF n < 0 THEN 0 ELSE n)
    IN  { s \in [1..k -> {rs[i] : i \in 1..Len(rs)}] :
            \A i, j \in 1..k : i # j => s[i] # s[j] }

SearchOutcomes(user, limit) ==
    { [kind |-> "raise", val |-> PyNone, error |-> e] : e \in EngineErrors }
    \cup { [kind |-> "return", val |-> v, error |-> ""] :
             v \in {PyNone, PyDict(FALSE, <<>>), PyList(UserRecords(user))} }
    \cup { [kind |-> "return", val |-> PyDict(TRUE, rs), error |-> ""] :
             rs \in UNION { Rankings(UserRecords(user), n) : n \in limit } }

\* A call that hands the engine one record more than asked for.
EngineSearchLimit_OneMore(limit) == {n + 1 : n \in limit}

\* The limit search_memories hands to memory.search (line 179): its own.
EngineSearchLimit(limit) == limit

\* search_memories after memory.search answered: the debug line calls
\* results.get, which raises on a value without .get; any exception gives
\* None.
SearchMemoriesResult(o) ==
    IF o.kind = "raise" \/ ~HasGet(o.val) THEN PyNone ELSE o.val

(***************************************************************************)
(* Strings.                                                                *)
(***************************************************************************)
Whitespace == {" ", "\n", "\t", "\r"}

RECURSIVE LStrip(_)
LStrip(s) ==
    IF s = "" THEN ""
    ELSE IF Head(s) \in Whitespace THEN LStrip(Tail(s)) ELSE s

RECURSIVE RStrip(_)
RStrip(s) ==
    IF s = "" THEN ""
    ELSE IF SubSeq(s, Len(s), Len(s)) \in Whitespace
         THEN RStrip(SubSeq(s, 1, Len(s) - 1))
         ELSE s

\* str.strip()
Strip(s) == RStrip(LStrip(s))

\* s.startswith(p)
StartsWith(s, p) == Len(s) >= Len(p) /\ SubSeq(s, 1, Len(p)) = p

\* p in s
Contains(s, p) ==
    \E i \in 1..(Len(s) - Len(p) + 1) : SubSeq(s, i, i + Len(p) - 1) = p

\* sep.join(xs)
RECURSIVE Join(_, _)
Join(xs, sep) ==
    IF Len(xs) = 0 THEN ""
    ELSE IF Len(xs) = 1 THEN xs[1]
    ELSE xs[1] \o sep \o Join(Tail(xs), sep)

\* U+2022 and a space.
Bullet == "* "

(***************************************************************************)
(* chat: context formatting (lines 275-281).                               *)
(***************************************************************************)
NoInfoContext(user) == "No specific information available about " \o user \o "."

\* The facts in the reverse of the order the engine returned them.
MemoryFacts_Reversed(rs) == [i \in 1..Len(rs) |-> rs[Len(rs) + 1 - i].memory]

\* [mem['memory'] for mem in memories['results']]
MemoryFacts(rs) == [i \in 1..Len(rs) |-> rs[i].memory]

BulletLines(facts) == [i \in 1..Len(facts) |-> Bullet \o facts[i]]

FactsContext(user, rs) ==
    "Facts about " \o user \o ":\n" \o Join(BulletLines(MemoryFacts(rs)), "\n")

\* A formatter without the no-results branch.
FormatContext_NoFallback(memories, user) ==
    FactsContext(user, GetResults(memories))

FormatContext(memories, user) ==
    IF ~Truthy(memories) \/ Len(GetResults(memories)) = 0
    THEN NoInfoContext(user)
    ELSE FactsContext(user, GetResults(memories))

(***************************************************************************)
(* The prompt template service (external): get_prompt renders a template   *)
(* from its bindings, or fails.                                            *)
(***************************************************************************)
RenderUserInteraction(user, context, query) ==
    "[chat/user_interaction user_id=" \o user \o " context=" \o context
        \o " query=" \o query \o "]"

RenderErrorResponse(query, message) ==
    "[chat/error_response query=" \o query \o " error_message=" \o message \o "]"

\* A fallback text that leaves the query out.
Apology_NoQuery(query) ==
    "I apologize, but I'm having trouble processing your request"

\* The ultimate fallback of line 298.
Apology(query) ==
    "I apologize, but I'm having trouble processing your request: " \o query

\* An except block that returns the bare message.
SorryText_MessageOnly(message) == message

\* The string chat returns from its except block (line 305).
SorryText(message) == "Sorry, I encountered an error: " \o message

NoResponseText == "Sorry, I couldn't generate a response."

(***************************************************************************)
(* chat                                                                    *)
(***************************************************************************)
\* self.config.get('chat_options', {}).get('max_context_memories', 5)
ConfigMaxContext ==
    IF config.chat_options = "set" THEN {CfgMaxContext} ELSE {DefaultMaxContext}

\* max_context_memories or <the configured value>
ResolveLimit(m) == IF TruthyInt(m) THEN m ELSE ConfigMaxContext

\* Line 267 raises AttributeError when the right operand of `or` is
\* evaluated and chat_options is not a mapping. Lines 266-267 stand before
\* the try.
ResolveLimitRaises(m) == ~TruthyInt(m) /\ config.chat_options = "null"

CallChat(q, u, m) ==
    /\ Idle
    /\ call' = [NoCall EXCEPT !.op = "chat", !.text = q, !.user_id = u,
                              !.max_context_memories = m]
    /\ trace' = <<>>
    /\ client' = NoClient
    /\ IF ResolveLimitRaises(m)
       THEN /\ loc' = [NoLoc EXCEPT !.user_id = ResolveUser(u)]
            /\ pc' = "done"
            /\ ret' = Raised("AttributeError")
       ELSE /\ loc' = [NoLoc EXCEPT !.user_id = ResolveUser(u),
                                    !.limit = ResolveLimit(m)]
            /\ pc' = "chat_search"
            /\ ret' = NoRet
    /\ last' = NoLast
    /\ UNCHANGED <<mgr, cfgFile, config, initError, memory, store>>

\* search_memories(query, user_id, max_context_memories), then the context.
ChatSearch ==
    /\ pc = "chat_search"
    /\ \E o \in SearchOutcomes(loc.user_id, EngineSearchLimit(loc.limit)) :
         /\ trace' = Append(trace, Event("search", o.kind = "raise", o.val, "", <<>>, o.error))
         /\ loc' = [loc EXCEPT
                      !.memories = SearchMemoriesResult(o),
                      !.context = FormatContext(SearchMemoriesResult(o), loc.user_id)]
    /\ pc' = "chat_prompt"
    /\ UNCHANGED <<mgr, cfgFile, config, initError, memory, last, store, call, ret, client>>

\* Entering _call_ollama_api(prompt).
EnterClient(prompt) ==
    [st |-> "BUILD_REQUEST", prompt |-> prompt, stream |-> FALSE, posts |-> 0,
     raised |-> FALSE, text |-> ""]

\* A chat that asks for the error_response template whatever the first
\* request gave.
NextAfterPrompt_AlwaysFallback(ok) == "chat_fallback"

\* Lines 284-299: with the user_interaction prompt chat goes on to the
\* generation call; the except block asks for the error_response template.
NextAfterPrompt(ok) == IF ok THEN "gen_build" ELSE "chat_fallback"

\* get_prompt('chat', 'user_interaction', ...)
ChatPrompt ==
    /\ pc = "chat_prompt"
    /\ \E ok \in BOOLEAN, e \in PromptErrors :
         /\ trace' = Append(trace, Event("prompt", ~ok, PyNone, "user_interaction",
                <<loc.user_id, loc.context, call.text>>,
                IF ok THEN RenderUserInteraction(loc.user_id, loc.context, call.text)
                ELSE e))
         /\ IF ok
            THEN /\ loc' = [loc EXCEPT !.prompt =
                               RenderUserInteraction(loc.user_id, loc.context, call.text)]
                 /\ client' = EnterClient(loc'.prompt)
            ELSE /\ loc' = [loc EXCEPT !.error = e]
                 /\ client' = client
         /\ pc' = NextAfterPrompt(ok)
    /\ UNCHANGED <<mgr, cfgFile, config, initError, memory, last, store, call, ret>>

\* get_prompt('chat', 'error_response', ...), and the ultimate fallback.
ChatFallback ==
    /\ pc = "chat_fallback"
    /\ \E ok \in BOOLEAN, e \in PromptErrors :
         /\ trace' = Append(trace, Event("prompt", ~ok, PyNone, "error_response",
                <<call.text, loc.error>>,
                IF ok THEN RenderErrorResponse(call.text, loc.error) ELSE e))
         /\ loc' = [loc EXCEPT !.prompt =
                      IF ok THEN RenderErrorResponse(call.text, loc.error)
                      ELSE Apology(call.text)]
    /\ pc' = "gen_build"
    /\ client' = EnterClient(loc'.prompt)
    /\ UNCHANGED <<mgr, cfgFile, config, initError, memory, last, store, call, ret>>

(***************************************************************************)
(* _call_ollama_api, called by chat inside its try: an exception it lets   *)
(* through ends chat in the except block of line 303.                      *)
(***************************************************************************)
\* Lines 323-337: the message of the exception building the request raises,
\* "" when it raises none.
BuildError ==
    IF ~config.llm THEN "'llm'"
    ELSE IF config.chat_options = "null"
    THEN "'NoneType' object has no attribute 'get'"
    ELSE ""

GenBuild ==
    /\ pc = "gen_build"
    /\ IF BuildError # ""
       THEN /\ client' = [client EXCEPT !.st = "FAILED", !.raised = TRUE,
                                         !.text = BuildError]
            /\ pc' = "done"
            /\ ret' = ReturnedText(SorryText(BuildError))
       ELSE /\ client' = [client EXCEPT !.st = "SEND"]
            /\ pc' = "gen_send"
            /\ ret' = ret
    /\ UNCHANGED <<mgr, cfgFile, config, initError, memory, last, store, call, loc, trace>>

\* requests.post and raise_for_status.
GenSend ==
    /\ pc = "gen_send"
    /\ \E o \in [kind : {"raise"}, error : HttpErrors, body : {NoBody}]
           \cup [kind : {"ok"}, error : {""}, body : Bodies] :
         /\ trace' = Append(trace,
                Event("post", o.kind = "raise", PyNone, client.prompt, <<>>, o.error))
         /\ IF o.kind = "raise"
            THEN /\ client' = [client EXCEPT !.st = "FAILED", !.posts = @ + 1,
                                              !.raised = TRUE, !.text = o.error]
                 /\ loc' = loc
                 /\ pc' = "done"
                 /\ ret' = ReturnedText(SorryText(o.error))
            ELSE /\ client' = [client EXCEPT !.st = "PARSE", !.posts = @ + 1]
                 /\ loc' = [loc EXCEPT !.body = o.body]
                 /\ pc' = "gen_parse"
                 /\ ret' = ret
    /\ UNCHANGED <<mgr, cfgFile, config, initError, memory, last, store, call>>

\* Lines 342-347: the value _call_ollama_api returns for a 2xx body with a
\* text or no response field.
ParseResponse(body) ==
    IF body.kind = "text" THEN Strip(body.text) ELSE NoResponseText

GenParse ==
    /\ pc = "gen_parse"
    /\ IF loc.body.kind = "null"
       THEN /\ client' = [client EXCEPT !.st = "FAILED", !.raised = TRUE,
                             !.text = "'NoneType' object has no attribute 'strip'"]
            /\ ret' = ReturnedText(SorryText("'NoneType' object has no attribute 'strip'"))
       ELSE /\ client' = [client EXCEPT !.st = "DONE",
                                         !.text = ParseResponse(loc.body)]
            /\ ret' = ReturnedText(ParseResponse(loc.body))
    /\ pc' = "done"
    /\ UNCHANGED <<mgr, cfgFile, config, initError, memory, last, store, call, loc, trace>>

(***************************************************************************)
(* search_memories and get_all_memories, called from outside.              *)
(***************************************************************************)
\* The default of the limit parameter of search_memories (line 156).
DefaultSearchLimit == 5

SearchLimits == {0, 1, DefaultSearchLimit}

\* An except block that lets the exception through.
SoftFailure_Reraise == Raised("Exception")

\* The except blocks of lines 182-184 and 204-206: log, return None.
SoftFailure == Returned(PyNone)

\* The try block of a read fails when the engine raises, and when the debug
\* line (180, 202) calls .get on a result that has none.
ReadFails(o) == o.kind = "raise" \/ ~HasGet(o.val)

\* Lines 178-184.
SearchReturn(o) == IF ReadFails(o) THEN SoftFailure ELSE Returned(o.val)

CallSearchMemories(q, u, l) ==
    /\ Idle
    /\ call' = [NoCall EXCEPT !.op = "search_memories", !.text = q,
                              !.user_id = u, !.limit = l]
    /\ loc' = [NoLoc EXCEPT !.user_id = ResolveUser(u), !.limit = {l}]
    /\ trace' = <<>>
    /\ client' = NoClient
    /\ pc' = "search_call"
    /\ ret' = NoRet
    /\ last' = NoLast
    /\ UNCHANGED <<mgr, cfgFile, config, initError, memory, store>>

\* memory.search(query, user_id=user_id, limit=limit) and what follows it.
SearchCall ==
    /\ pc = "search_call"
    /\ \E o \in SearchOutcomes(loc.user_id, EngineSearchLimit(loc.limit)) :
         /\ trace' = Append(trace, Event("search", o.kind = "raise", o.val, "", <<>>, o.error))
         /\ ret' = SearchReturn(o)
    /\ pc' = "done"
    /\ UNCHANGED <<mgr, cfgFile, config, initError, memory, last, store, call, loc, client>>

\* The outcomes of memory.get_all(user_id=user) (external): it raises, or
\* returns None, an empty mapping, or the user's records in stored order,
\* in a mapping or as a bare list.
GetAllOutcomes(user) ==
    { [kind |-> "raise", val |-> PyNone, error |-> e] : e \in EngineErrors }
    \cup { [kind |-> "return", val |-> v, error |-> ""] :
             v \in {PyNone, PyDict(FALSE, <<>>), PyList(UserRecords(user)),
                    PyDict(TRUE, UserRecords(user))} }

\* Lines 200-206.
GetAllReturn(o) == IF ReadFails(o) THEN SoftFailure ELSE Returned(o.val)

CallGetAllMemories(u) ==
    /\ Idle
    /\ call' = [NoCall EXCEPT !.op = "get_all_memories", !.user_id = u]
    /\ loc' = [NoLoc EXCEPT !.user_id = ResolveUser(u)]
    /\ trace' = <<>>
    /\ client' = NoClient
    /\ pc' = "get_all_call"
    /\ ret' = NoRet
    /\ last' = NoLast
    /\ UNCHANGED <<mgr, cfgFile, config, initError, memory, store>>

GetAllCall ==
    /\ pc = "get_all_call"
    /\ \E o \in GetAllOutcomes(loc.user_id) :
         /\ trace' = Append(trace, Event("get_all", o.kind = "raise", o.val, "", <<>>, o.error))
         /\ ret' = GetAllReturn(o)
    /\ pc' = "done"
    /\ UNCHANGED <<mgr, cfgFile, config, initError, memory, last, store, call, loc, client>>

(***************************************************************************)
(* reset_memories                                                          *)
(***************************************************************************)
\* The positions of the engine delete calls of the operation in flight.
DeleteIdx == {i \in DOMAIN trace : trace[i].ev = "delete"}

\* The engine delete calls that returned.
DeletedIdx == {i \in DeleteIdx : ~trace[i].raised}

\* The number of records the user of the reset in flight had when it began:
\* those still stored and those its delete calls removed.
StartCount == Len(UserRecords(loc.user_id)) + Cardinality(DeletedIdx)

\* The reset in flight went clean: its listing was a mapping of all the
\* records the user had, and none of its deletes raised.
ResetClean ==
    /\ \E i \in DOMAIN trace :
         /\ trace[i].ev = "get_all"
         /\ ~trace[i].raised
         /\ HasGet(trace[i].val)
         /\ Len(GetResults(trace[i].val)) = StartCount
    /\ DeletedIdx = DeleteIdx

CallResetMemories(u) ==
    /\ Idle
    /\ call' = [NoCall EXCEPT !.op = "reset_memories", !.user_id = u]
    /\ loc' = [NoLoc EXCEPT !.user_id = ResolveUser(u)]
    /\ trace' = <<>>
    /\ client' = NoClient
    /\ pc' = "reset_list"
    /\ ret' = NoRet
    /\ UNCHANGED <<mgr, cfgFile, config, initError, memory, last, store>>

\* not all_memories or not all_memories.get('results')
NothingListed(all) == ~Truthy(all) \/ GetResults(all) = <<>>

\* Lines 224-230: get_all_memories(user_id), then the test for nothing to
\* delete.
ResetList ==
    /\ pc = "reset_list"
    /\ \E o \in GetAllOutcomes(loc.user_id) :
         /\ trace' = Append(trace, Event("get_all", o.kind = "raise", o.val, "", <<>>, o.error))
         /\ IF NothingListed(GetAllReturn(o).val)
            THEN /\ loc' = [loc EXCEPT !.memories = GetAllReturn(o).val]
                 /\ pc' = "done"
                 /\ ret' = ReturnedNum(0)
            ELSE /\ loc' = [loc EXCEPT !.memories = GetAllReturn(o).val,
                                       !.pending = GetResults(GetAllReturn(o).val),
                                       !.deleted_count = 0]
                 /\ pc' = "reset_delete"
                 /\ ret' = ret
    /\ UNCHANGED <<mgr, cfgFile, config, initError, memory, last, store, call, client>>

\* A count that is never incremented.
CountAfterDelete_NeverCounts(count, raised) == count

\* A count that takes every delete call for a deletion.
CountAfterDelete_CountsFailures(count, raised) == count + 1

\* Lines 232-236: deleted_count += 1 follows memory.delete in the try, so a
\* delete that raises leaves the count alone.
CountAfterDelete(count, raised) == IF raised THEN count ELSE count + 1

\* The store after memory.delete(memory_id=id) returned (external).
Deleted(id) == SelectSeq(store, LAMBDA r : r.id # id)

\* One pass through the loop of lines 231-236, and the return of line 239
\* after the last.
ResetDelete ==
    /\ pc = "reset_delete"
    /\ loc.pending # <<>>
    /\ \E raised \in BOOLEAN, e \in EngineErrors :
         /\ trace' = Append(trace, Event("delete", raised, PyList(<<Head(loc.pending)>>),
                                        "", <<>>, IF raised THEN e ELSE ""))
         /\ store' = IF raised THEN store ELSE Deleted(Head(loc.pending).id)
         /\ loc' = [loc EXCEPT !.pending = Tail(@),
                               !.deleted_count = CountAfterDelete(@, raised)]
    /\ IF Tail(loc.pending) = <<>>
       THEN pc' = "done" /\ ret' = ReturnedNum(loc'.deleted_count)
       ELSE pc' = pc /\ ret' = ret
    /\ UNCHANGED <<mgr, cfgFile, config, initError, memory, last, call, client>>

\* The caller takes the result of the finished operation; the frame of the
\* call is gone.
Finish ==
    /\ pc = "done"
    /\ pc' = "idle"
    /\ call' = NoCall
    /\ loc' = NoLoc
    /\ ret' = NoRet
    /\ trace' = <<>>
    /\ client' = NoClient
    /\ last' = IF call.op = "reset_memories"
               THEN [op |-> "reset_memories", user_id |-> loc.user_id,
                     populated |-> StartCount > 0, clean |-> ResetClean]
               ELSE NoLast
    /\ UNCHANGED <<mgr, cfgFile, config, initError, memory, store>>

Next ==
    \/ LoadConfig
    \/ InitializeMemory
    \/ Finish
    \/ \E f \in Facts, u \in UserArgs, n \in 0..MaxRetries : CallAddFact(f, u, n)
    \/ AddAttempt
    \/ AddExcept
    \/ \E q \in Queries, u \in UserArgs, m \in LimitArgs : CallChat(q, u, m)
    \/ ChatSearch
    \/ ChatPrompt
    \/ ChatFallback
    \/ GenBuild
    \/ GenSend
    \/ GenParse
    \/ \E q \in Queries, u \in UserArgs, l \in SearchLimits : CallSearchMemories(q, u, l)
    \/ SearchCall
    \/ \E u \in UserArgs : CallGetAllMemories(u)
    \/ GetAllCall
    \/ \E u \in UserArgs : CallResetMemories(u)
    \/ ResetList
    \/ ResetDelete

Spec == Init /\ [][Next]_vars

(***************************************************************************)
(* Properties of add_fact.                                                 *)
(***************************************************************************)
\* The positions of the engine add calls of the operation in flight.
AddIdx == {i \in DOMAIN trace : trace[i].ev = "add"}

AddFactDone == call.op = "add_fact" /\ pc = "done"

AllAddsRaised == \A i \in AddIdx : trace[i].raised

\* C1: when every engine add call of an add_fact call raised, the finished
\* call has made exactly max_retries engine add calls and has returned None
\* (it has not raised).
C1_RetryBound ==
    (AddFactDone /\ AllAddsRaised) =>
        /\ Cardinality(AddIdx) = call.max_retries
        /\ ret = Returned(PyNone)

\* A finished add_fact call with max_retries >= 2 whose attempts all raised.
C1_Witness ==
    /\ AddFactDone
    /\ AllAddsRaised
    /\ call.max_retries >= 2
    /\ Cardinality(AddIdx) = call.max_retries

\* C2: no engine add call follows one that returned without raising: the
\* first attempt that returns is the last attempt of the add_fact call.
C2_NoAttemptAfterSuccess ==
    call.op = "add_fact" =>
        \A i \in AddIdx : ~trace[i].raised => \A j \in AddIdx : j <= i

\* C3: whatever value the engine's add returns without raising, add_fact
\* returns that same value and makes no further engine add call.
C3_AnyResponseIsSuccess ==
    call.op = "add_fact" =>
        \A i \in AddIdx : ~trace[i].raised =>
            /\ i = Len(trace)
            /\ pc = "done"
            /\ ret = Returned(trace[i].val)

SearchIdx == {i \in DOMAIN trace : trace[i].ev = "search"}

PromptIdx == {i \in DOMAIN trace : trace[i].ev = "prompt"}

PostIdx == {i \in DOMAIN trace : trace[i].ev = "post"}

\* Every character of s is whitespace.
AllBlank(s) == \A k \in 1..Len(s) : SubSeq(s, k, k) \in {" ", "\n", "\t", "\r"}

\* C5: a finished chat call has returned (a string); it has not raised.
C5_ChatNeverRaises ==
    (call.op = "chat" /\ pc = "done") => ret.st = "returned"

\* C6: when the generation HTTP call of a chat raised, chat has returned the
\* string "Sorry, I encountered an error: " followed by the message of the
\* exception, and has not raised.
C6_GenerationFailureIsText ==
    call.op = "chat" =>
        \A i \in PostIdx : trace[i].raised =>
            /\ pc = "done"
            /\ ret.st = "returned"
            /\ StartsWith(ret.text, "Sorry, I encountered an error:")
            /\ ret.text = "Sorry, I encountered an error: " \o trace[i].out

\* A chat whose HTTP call timed out.
C6_Witness ==
    /\ call.op = "chat"
    /\ pc = "done"
    /\ \E i \in PostIdx : trace[i].raised /\ trace[i].out = "read timed out"
    /\ ret.text = "Sorry, I encountered an error: read timed out"

SearchRaised == call.op = "chat" /\ \E i \in SearchIdx : trace[i].raised

\* What C7 says of a chat whose engine search raised, up to its reply:
\* search_memories gave None, the context is the no-information sentence
\* for the user, and the finished chat went through prompt resolution with
\* that context and called the generation client with the prompt.
C7_Degrades ==
    /\ loc.memories = PyNone
    /\ loc.context = "No specific information available about " \o loc.user_id \o "."
    /\ pc = "done" =>
         /\ \E i \in PromptIdx :
              /\ trace[i].arg = "user_interaction"
              /\ trace[i].bind = <<loc.user_id, loc.context, call.text>>
         /\ client.st # "idle"
         /\ client.prompt = loc.prompt
         /\ ret.st = "returned"

\* C7 as stated: after a search that raised, chat degrades as above and
\* returns a non-empty string.
C7_SearchFailureNonEmptyReply ==
    SearchRaised => (C7_Degrades /\ (pc = "done" => ret.text # ""))

\* C7 amended: after a search that raised, chat degrades as above and
\* returns a string, which is empty only when the generation endpoint
\* answered a response text that is empty or all whitespace.
C7_SearchFailureDegrades ==
    SearchRaised =>
        /\ C7_Degrades
        /\ (pc = "done" /\ ret.text = "") =>
              /\ \E i \in PostIdx : ~trace[i].raised
              /\ loc.body.kind = "text"
              /\ AllBlank(loc.body.text)

\* A chat whose search raised and which returned the trimmed answer.
C7_Witness ==
    /\ SearchRaised
    /\ pc = "done"
    /\ ret.text = "You like pizza."
    /\ loc.context = "No specific information available about bruce."

\* C8: prompt resolution raises nothing and ends with a prompt: the text of
\* 'user_interaction' when it resolves; else 'error_response' is requested
\* with the query and the error message, and its text is the prompt when it
\* resolves; else the prompt is the apology, which holds the query verbatim.
\* In each case the generation client is called with that prompt, and an
\* HTTP request that is sent carries it.
C8_PromptAlwaysResolved ==
    (call.op = "chat" /\ PromptIdx # {}) =>
        LET i == CHOOSE k \in PromptIdx : \A j \in PromptIdx : k <= j
        IN  /\ trace[i].arg = "user_interaction"
            /\ ret.st # "raised"
            /\ pc # "chat_prompt"
            /\ pc = "chat_fallback" => (trace[i].raised /\ PromptIdx = {i})
            /\ pc # "chat_fallback" =>
                 /\ ~trace[i].raised =>
                      (PromptIdx = {i} /\ loc.prompt = trace[i].out)
                 /\ trace[i].raised =>
                      /\ PromptIdx = {i, i + 1}
                      /\ trace[i + 1].arg = "error_response"
                      /\ trace[i + 1].bind = <<call.text, trace[i].out>>
                      /\ ~trace[i + 1].raised => loc.prompt = trace[i + 1].out
                      /\ trace[i + 1].raised =>
                           /\ loc.prompt =
                                "I apologize, but I'm having trouble processing your request: "
                                    \o call.text
                           /\ Contains(loc.prompt, call.text)
                 /\ client.st # "idle"
                 /\ client.prompt = loc.prompt
                 /\ \A j \in PostIdx : trace[j].arg = loc.prompt

\* A finished chat whose two templates failed and whose HTTP request
\* carried the apology.
C8_Witness ==
    /\ call.op = "chat"
    /\ pc = "done"
    /\ Cardinality(PromptIdx) = 2
    /\ \A i \in PromptIdx : trace[i].raised
    /\ \E j \in PostIdx :
         trace[j].arg =
            "I apologize, but I'm having trouble processing your request: What do I like?"

\* One line per record, in order: a line break, the bullet, the memory text.
RECURSIVE C9_Lines(_)
C9_Lines(rs) ==
    IF rs = <<>> THEN ""
    ELSE "\n" \o "* " \o Head(rs).memory \o C9_Lines(Tail(rs))

\* C9: once chat has searched, its context is the no-information sentence
\* when search_memories gave None, a mapping without results or with an
\* empty results list; otherwise it is the header "Facts about {user_id}:"
\* followed by one bullet line per record of the result, in the result's
\* order, each with the record's whole memory text.
C9_ContextFormat ==
    (call.op = "chat" /\ SearchIdx # {}) =>
        LET m == loc.memories
        IN  IF m.t = "none" \/ ~m.hasKey \/ m.results = <<>>
            THEN loc.context =
                    "No specific information available about " \o loc.user_id \o "."
            ELSE /\ m.t = "dict"
                 /\ \E i \in SearchIdx : m = trace[i].val
                 /\ loc.context =
                        "Facts about " \o loc.user_id \o ":" \o C9_Lines(m.results)

\* The example of the specification: two facts about bruce, in rank order.
C9_Witness ==
    /\ call.op = "chat"
    /\ Len(loc.memories.results) = 2
    /\ loc.context = "Facts about bruce:\n* Lives in NYC\n* Likes pizza"

\* C10: the limit chat passes to the engine search is the caller's
\* max_context_memories when one is given (0 included), else the configured
\* chat_options.max_context_memories, else 5.
C10_LimitPassedToSearch ==
    (call.op = "chat" /\ pc = "chat_search") =>
        loc.limit =
            IF call.max_context_memories # {} THEN call.max_context_memories
            ELSE IF config.chat_options = "set" THEN {CfgMaxContext}
            ELSE {5}

(***************************************************************************)
(* Properties of reset_memories.                                           *)
(***************************************************************************)
ResetOp == call.op = "reset_memories"

ResetDone == ResetOp /\ pc = "done"

\* The positions of the engine get_all calls of the operation in flight.
GetAllIdx == {i \in DOMAIN trace : trace[i].ev = "get_all"}

\* The records the listing of the reset in flight handed to the loop: those
\* of the mapping get_all returned, none when it raised or returned
\* anything else.
Listed ==
    IF trace # <<>> /\ trace[1].ev = "get_all" /\ ~trace[1].raised
       /\ HasGet(trace[1].val)
    THEN GetResults(trace[1].val)
    ELSE <<>>

\* C11: a reset_memories call never raises; it calls get_all once, first,
\* and then delete once per listed record, in list order, whether or not an
\* earlier delete raised; finished, it has returned the number of delete
\* calls that did not raise, which is 0 when the listing failed or listed
\* nothing.
C11_ResetCountsDeletes ==
    ResetOp =>
        /\ ret.st # "raised"
        /\ \A i \in DOMAIN trace :
             IF i = 1 THEN trace[i].ev = "get_all" ELSE trace[i].ev = "delete"
        /\ \A i \in DeleteIdx :
             /\ i - 1 <= Len(Listed)
             /\ trace[i].val = PyList(<<Listed[i - 1]>>)
        /\ pc = "done" =>
             /\ Cardinality(GetAllIdx) = 1
             /\ Cardinality(DeleteIdx) = Len(Listed)
             /\ ret = ReturnedNum(Cardinality(DeletedIdx))

\* A finished reset of two listed records whose first delete raised and
\* whose second went through: it has returned 1.
C11_Witness ==
    /\ ResetDone
    /\ Len(Listed) = 2
    /\ trace[2].raised
    /\ ~trace[3].raised
    /\ ret.num = 1

\* The reset in flight directly follows a finished reset for the same user.
FollowsReset == last.op = "reset_memories" /\ last.user_id = loc.user_id

SearchDone == call.op = "search_memories" /\ pc = "done"

GetAllDone == call.op = "get_all_memories" /\ pc = "done"

\* C13: the value a search_memories(query, user_id, limit) call returns
\* holds at most limit records, whatever the limit and the store.
C13_SearchWithinLimit ==
    SearchDone =>
        /\ ret.st = "returned"
        /\ Len(ret.val.results) <= call.limit

\* A finished search with limit 1 for a user with two records: it has
\* returned one of them.
C13_Witness ==
    /\ SearchDone
    /\ call.limit = 1
    /\ Len(UserRecords(loc.user_id)) = 2
    /\ HasGet(ret.val)
    /\ Len(ret.val.results) = 1

\* C14: a search_memories or get_all_memories call makes exactly one engine
\* call and no other (no retry, no sleep); when the engine call returned,
\* the call returns that value unchanged; when it raised, the call returns
\* None and does not raise.
C14_SingleShotPassThrough ==
    (SearchDone \/ GetAllDone) =>
        /\ Len(trace) = 1
        /\ trace[1].ev = IF SearchDone THEN "search" ELSE "get_all"
        /\ IF trace[1].raised
           THEN ret = Returned(PyNone)
           ELSE ret = Returned(trace[1].val)

(***************************************************************************)
(* Properties of construction.                                             *)
(***************************************************************************)
\* The configuration file has been read into self.config.
ConfigLoaded == config = cfgFile /\ config.kind = "json"

\* C15: construction either fails for good with the error of its cause or
\* gives a manager that holds an engine. A missing file fails with
\* FileNotFoundError, malformed JSON with ValueError; a loaded
\* configuration without memory_config, or one the engine refuses, fails
\* with RuntimeError; the engine is built only once the configuration is
\* loaded; a ready manager holds an engine, a failed one holds none and
\* takes no call.
C15_ConstructionErrors ==
    /\ cfgFile.kind = "missing" =>
         /\ mgr \in {"new", "failed"}
         /\ mgr = "failed" => initError = "FileNotFoundError"
    /\ cfgFile.kind = "malformed" =>
         /\ mgr \in {"new", "failed"}
         /\ mgr = "failed" => initError = "ValueError"
    /\ (ConfigLoaded /\ config.processing_options = "ok"
        /\ (~config.memory_config \/ ~config.engineOk)) =>
         /\ mgr \in {"loaded", "failed"}
         /\ mgr = "failed" => initError = "RuntimeError"
    /\ memory = "Memory" => ConfigLoaded /\ mgr = "ready"
    /\ mgr = "ready" => memory = "Memory" /\ initError = ""
    /\ mgr = "failed" => memory = "None" /\ initError # ""
    /\ call.op # "none" => mgr = "ready"

\* A construction that failed with RuntimeError on a loaded configuration
\* without memory_config.
C15_Witness ==
    /\ mgr = "failed"
    /\ ConfigLoaded
    /\ ~config.memory_config
    /\ initError = "RuntimeError"
    /\ memory = "None"

(***************************************************************************)
(* The sleeps of add_fact.                                                 *)
(***************************************************************************)
\* The positions of the sleeps of the operation in flight.
SleepIdx == {i \in DOMAIN trace : trace[i].ev = "sleep"}

\* C16: in an add_fact call every sleep directly follows an engine add call
\* that raised, so none follows an attempt that returned; every attempt
\* after the first directly follows a sleep, so two attempts in a row are
\* one sleep apart; there are at most max_retries - 1 sleeps; and the
\* finished call has slept after each failed attempt but the last allowed
\* one, and not after its last attempt.
C16_SleepOnlyBetweenFailedAttempts ==
    call.op = "add_fact" =>
        /\ \A i \in SleepIdx :
             i > 1 /\ trace[i - 1].ev = "add" /\ trace[i - 1].raised
        /\ \A i \in AddIdx : i > 1 => trace[i - 1].ev = "sleep"
        /\ Cardinality(SleepIdx) <= IF call.max_retries > 0
                                    THEN call.max_retries - 1 ELSE 0
        /\ pc = "done" =>
             /\ trace # <<>> => trace[Len(trace)].ev = "add"
             /\ \A i \in AddIdx :
                  (trace[i].raised /\ i < Len(trace)) => trace[i + 1].ev = "sleep"

(***************************************************************************)
(* Properties of the generation client (_call_ollama_api).                 *)
(***************************************************************************)
\* t is s without its leading and trailing whitespace.
IsTrimOf(t, s) ==
    /\ t # "" => /\ SubSeq(t, 1, 1) \notin Whitespace
                 /\ SubSeq(t, Len(t), Len(t)) \notin Whitespace
    /\ \E i \in 0..Len(s) :
         /\ i + Len(t) <= Len(s)
         /\ AllBlank(SubSeq(s, 1, i))
         /\ SubSeq(s, i + 1, i + Len(t)) = t
         /\ AllBlank(SubSeq(s, i + Len(t) + 1, Len(s)))

\* The POST of the client call in flight went through with a 2xx status.
PostReturned == \E i \in PostIdx : ~trace[i].raised

\* The steps a client call may take.
ClientSteps ==
    { <<"idle", "BUILD_REQUEST">>, <<"BUILD_REQUEST", "SEND">>,
      <<"SEND", "PARSE">>, <<"PARSE", "DONE">>,
      <<"BUILD_REQUEST", "FAILED">>, <<"SEND", "FAILED">>, <<"PARSE", "FAILED">>,
      <<"DONE", "idle">>, <<"FAILED", "idle">> }

\* A step leaves the state of the client alone or takes one of its steps.
ClientStep ==
    client'.st = client.st \/ <<client.st, client'.st>> \in ClientSteps

\* What holds of a client call whatever the answer: no streaming, at most
\* one POST, none before SEND is left, a terminal state exactly when the
\* call is over, FAILED with the error of the POST when the POST raised,
\* DONE only after a 2xx answer and then with the trimmed response field,
\* or the canned string when the field is absent.
ClientCall ==
    client.st # "idle" =>
        /\ ~client.stream
        /\ client.posts = Cardinality(PostIdx)
        /\ client.posts <= 1
        /\ \A i \in PostIdx : trace[i].arg = client.prompt
        /\ client.st \in {"BUILD_REQUEST", "SEND"} => client.posts = 0
        /\ client.st = "PARSE" => PostReturned
        /\ client.st \in {"DONE", "FAILED"} <=> pc = "done"
        /\ client.raised <=> client.st = "FAILED"
        /\ (\E i \in PostIdx : trace[i].raised) =>
             /\ client.st = "FAILED"
             /\ \E i \in PostIdx : client.text = trace[i].out
        /\ client.st = "DONE" =>
             /\ PostReturned
             /\ loc.body.kind \in {"text", "absent"}
             /\ loc.body.kind = "text" => IsTrimOf(client.text, loc.body.text)
             /\ loc.body.kind = "absent" => client.text = NoResponseText

\* C17 as stated: every client call goes BUILD_REQUEST, SEND, PARSE and ends
\* in one terminal state, with at most one POST, streaming off; it is
\* FAILED (raising) when the POST raised, and DONE after every 2xx answer,
\* returning the trimmed response field or the canned string.
C17_Every2xxIsDone ==
    /\ [](ClientCall /\ (client.st = "FAILED" => ~PostReturned))
    /\ [][ClientStep]_vars

(***************************************************************************)
(* The order and the effects of chat.                                      *)
(***************************************************************************)
ChatOp == call.op = "chat"

\* C18: the external calls of a chat call come in the order search, prompt
\* templates, generation: the engine search is the first call and has
\* answered before any template is asked for; the first template asked for
\* is user_interaction, with the formatted context; error_response is asked
\* for only directly after user_interaction raised; the HTTP POST is made
\* only with a prompt in hand, directly after the template request that
\* settled it, and no external call follows it.
C18_ChatOrder ==
    ChatOp =>
        /\ \A i \in DOMAIN trace : trace[i].ev \in {"search", "prompt", "post"}
        /\ \A i \in SearchIdx : i = 1
        /\ \A i \in PromptIdx :
             /\ i > 1
             /\ trace[1].ev = "search"
             /\ trace[i].arg = "user_interaction" =>
                  i = 2 /\ trace[i].bind[2] = loc.context
             /\ trace[i].arg = "error_response" =>
                  /\ trace[i - 1].ev = "prompt"
                  /\ trace[i - 1].arg = "user_interaction"
                  /\ trace[i - 1].raised
        /\ \A i \in PostIdx :
             /\ i = Len(trace)
             /\ i > 2
             /\ trace[i - 1].ev = "prompt"
             /\ loc.prompt # ""
             /\ trace[i].arg = loc.prompt
             /\ IF trace[i - 1].raised
                THEN trace[i - 1].arg = "error_response"
                ELSE trace[i - 1].out = loc.prompt

\* A finished chat that searched, was refused user_interaction, got
\* error_response and then made its POST.
C18_Witness ==
    /\ ChatOp
    /\ pc = "done"
    /\ Len(trace) = 4
    /\ trace[1].ev = "search"
    /\ trace[2].raised
    /\ trace[3].arg = "error_response"
    /\ ~trace[3].raised
    /\ trace[4].ev = "post"

(***************************************************************************)
(* The memory adapter as a whole.                                          *)
(***************************************************************************)
AdapterOps == {"add_fact", "search_memories", "get_all_memories", "reset_memories"}

\* The most external calls the adapter call in flight can have made: an
\* attempt and a sleep per allowed attempt of add_fact, one engine call of
\* a read, the listing and one delete per listed record of a reset.
MaxCalls ==
    CASE call.op = "add_fact" -> 2 * call.max_retries
      [] call.op = "reset_memories" -> 1 + Len(Listed)
      [] OTHER -> 1

\* C19: an add_fact, search_memories, get_all_memories or reset_memories
\* call never raises, whatever the engine's add, search, get_all and delete
\* calls do: while it runs it has a next step and has made no more external
\* calls than its bound, and once finished it has returned a value.
C19_AdaptersNeverRaise ==
    call.op \in AdapterOps =>
        /\ ret.st # "raised"
        /\ Len(trace) <= MaxCalls
        /\ pc = "done" => ret.st = "returned"
        /\ pc # "done" =>
             ENABLED (AddAttempt \/ AddExcept \/ SearchCall \/ GetAllCall
                      \/ ResetList \/ ResetDelete)

\* A finished get_all_memories call whose engine call raised: it has
\* returned None.
C19_Witness ==
    /\ GetAllDone
    /\ trace[1].raised
    /\ ret = Returned(PyNone)

\* A step of a chat call, its first and its last included, leaves the store
\* as it is.
ChatKeepsStore == (ChatOp \/ call'.op = "chat") => store' = store

\* What a chat call calls: the engine's search, prompt templates and the
\* HTTP POST, never add or delete, and at most one search and one POST.
ChatCalls ==
    ChatOp =>
        /\ \A i \in DOMAIN trace : trace[i].ev \in {"search", "prompt", "post"}
        /\ Cardinality(SearchIdx) <= 1
        /\ Cardinality(PostIdx) <= 1

\* C20: chat only reads the store: every chat call makes exactly one engine
\* search call and at most one HTTP call, never calls the engine's add or
\* delete, and leaves the stored records as they were.
C20_ChatReadOnly ==
    /\ [](ChatCalls /\ ((ChatOp /\ pc = "done") => Cardinality(SearchIdx) = 1))
    /\ [][ChatKeepsStore]_vars

=============================================================================
